---- MODULE Spec2Model ----
(***************************************************************************)
(* State-machine model of reddit_bot: the polling-and-eligibility engine   *)
(* of reply_bot.py (RedditCommentBot, RedditSubmissionBot), its base class *)
(* in base.py, and the older RedditReplyBot of __init__.py.                *)
(*                                                                         *)
(* One bot object is modelled; bot_class says which class it is.  A poll   *)
(* cycle (one call of loop(subreddit)) is one atomic action.  The remote   *)
(* platform is the environment: what a fetch returns, what the pluggable   *)
(* reply action answers and which remote call fails are inputs of the      *)
(* action.  Time is an integer clock of seconds.                           *)
(***************************************************************************)
EXTENDS Integers, Sequences, FiniteSets, TLC

(***************************************************************************)
(* Bounds of the model.  The time-valued and size-valued settings are      *)
(* configurable in the program; the model runs them at small values.       *)
(***************************************************************************)
MaxTime == 4            \* the clock runs over 1..MaxTime
MaxReplies == 1         \* max_replies_per_post is drawn from 0..MaxReplies
MaxAge == 2             \* comment_max_age
Timeout == 2            \* subreddit_timeout
CheckDepth == 1         \* score_check_depth
CheckMail == 2          \* check_mail
FetchLimit == 3         \* fetch_limit
MaxFailAt == 1          \* the remote failure hits the 1st..MaxFailAt-th get_info

(***************************************************************************)
(* Python values.                                                          *)
(***************************************************************************)
None == 0                       \* None as a fullname / cursor
NoAuthor == "[deleted]"         \* comment.author is None
bot_name == "bot"               \* self.bot_name = self.r.user.name

DictGet(d, k, default) == IF k \in DOMAIN d THEN d[k] ELSE default

DictSet(d, k, v) == [x \in (DOMAIN d) \cup {k} |-> IF x = k THEN v ELSE d[x]]

EmptyDict == <<>>

(***************************************************************************)
(* The remote platform: channels, users and the things (comments or        *)
(* submissions) that exist there.  A thing's fullname is its index in      *)
(* things.  The things of Listed appear in the listing of their subreddit, *)
(* in listing order (oldest first, created_utc non-decreasing, with ties); *)
(* the others are older ancestors reached only through parent_id.  The    *)
(* chain above thing 6 never reaches a root (12 and 13 name each other as  *)
(* parent), which stands for a chain longer than any depth bound.          *)
(***************************************************************************)
Subreddits == {"s1", "s2"}

Users == {"bot", "bob"}      \* the names the block-list may hold

Thing(sub, link, author, created, score, hidden, root, parent) ==
    [subreddit |-> sub, link_id |-> link, author |-> author,
     created_utc |-> created, score |-> score, score_hidden |-> hidden,
     is_root |-> root, parent_id |-> parent]

things ==
    << Thing("s1", "A", "alice",  1, 1, FALSE, FALSE, 8),      \* 1
       Thing("s1", "A", "bob",    2, 2, FALSE, FALSE, 7),      \* 2
       Thing("s1", "B", NoAuthor, 2, 5, FALSE, TRUE,  None),   \* 3
       Thing("s1", "A", "alice",  3, 3, FALSE, FALSE, 9),      \* 4
       Thing("s2", "C", "bot",    1, 4, FALSE, TRUE,  None),   \* 5
       Thing("s2", "C", "bob",    1, 1, FALSE, FALSE, 10),     \* 6
       Thing("s1", "A", "alice",  1, 1, FALSE, FALSE, 8),      \* 7
       Thing("s1", "A", "bob",    1, 0, FALSE, FALSE, 9),      \* 8
       Thing("s1", "A", "alice",  1, 2, FALSE, TRUE,  None),   \* 9
       Thing("s2", "C", "alice",  1, 1, FALSE, FALSE, 11),     \* 10
       Thing("s2", "C", "bob",    1, 1, FALSE, FALSE, 12),     \* 11
       Thing("s2", "C", "alice",  1, 9, TRUE,  FALSE, 13),     \* 12
       Thing("s2", "C", "alice",  1, 2, FALSE, FALSE, 12) >>   \* 13

Listed == 1..6

Listing(sub) == {i \in Listed : things[i].subreddit = sub}

RECURSIVE SortedSeq(_)
SortedSeq(S) ==
    IF S = {} THEN <<>>
    ELSE LET m == CHOOSE x \in S : \A y \in S : x <= y
         IN <<m>> \o SortedSeq(S \ {m})

BotClasses == {"RedditCommentBot", "RedditSubmissionBot", "RedditReplyBot"}

SettingsSpace ==
    [loop_sleep : {2},
     comment_max_age : {MaxAge},
     min_comment_score : {1},
     reply_if_score_hidden : {FALSE},
     check_parent_comments : BOOLEAN,
     score_check_depth : {CheckDepth},
     max_replies_per_post : 0..MaxReplies,
     subreddit_timeout : {Timeout},
     fetch_limit : {FetchLimit},
     check_mail : {CheckMail}]

(***************************************************************************)
(* The configurations explored for a bot class.  RedditSubmissionBot reads *)
(* neither max_replies_per_post nor check_parent_comments, so one value of *)
(* each is explored for it.                                                *)
(***************************************************************************)
Configurations(class) ==
    IF class = "RedditSubmissionBot"
    THEN {s \in SettingsSpace :
            s.check_parent_comments /\ s.max_replies_per_post = MaxReplies}
    ELSE SettingsSpace

VARIABLES
    bot_class,                    \* the class of the bot object
    settings,                     \* self.settings
    now,                          \* the clock (datetime.now / utcnow), seconds
    blocked_users,                \* self.blocked_users
    friends,                      \* the stored block-list (friends / file)
    subreddit_timeouts,           \* self.subreddit_timeouts
    subreddit_fullnames,          \* self.subreddit_fullnames
    subreddit_submissions,        \* self.subreddit_submissions
    submissions_comment_counter,  \* self.submissions_comment_counter
    posted_at,                    \* history: when did_post_in_subreddit ran last
    last,                         \* history: what the last operation did
    subreddits,                   \* self.subreddits, the whitelist in memory
    subscribed,                   \* the stored whitelist (subscriptions / file)
    pc,                           \* where run_forever stands
    idx,                          \* do_loop: the position cycle() is at
    exc,                          \* the exception that is propagating, if any
    bot_errors,                   \* history: the calls of bot_error
    bot_stops,                    \* history: the calls of bot_stop
    banned,                       \* history: removed for Forbidden, not re-added
    sched,                        \* history: the last step of the scheduler
    last_mail_check,              \* self.last_mail_check (RedditMessageBot)
    has_mail,                     \* the has_mail flag of the bot's account
    mail_result                   \* history: how the latest check_mail ended

\* the variables of the scheduler, other than the whitelist in memory
\* the variables of the mail check
mail_vars == <<last_mail_check, has_mail, mail_result>>

control == <<pc, idx, exc, bot_errors, bot_stops, banned, sched, mail_vars>>

scheduler_vars == <<subreddits, subscribed, control>>

\* the variables of the bot object and of the polling engine
bot_vars == <<bot_class, settings, now, blocked_users, friends,
              subreddit_timeouts, subreddit_fullnames, subreddit_submissions,
              submissions_comment_counter, posted_at, last>>

vars == <<bot_class, settings, now, blocked_users, friends, subreddit_timeouts,
          subreddit_fullnames, subreddit_submissions,
          submissions_comment_counter, posted_at, last, scheduler_vars>>

TypeOK ==
    /\ bot_class \in BotClasses
    /\ settings \in SettingsSpace
    /\ now \in 1..MaxTime
    /\ blocked_users \subseteq Users
    /\ friends \subseteq Users
    /\ DOMAIN subreddit_timeouts \subseteq Subreddits
    /\ DOMAIN subreddit_fullnames \subseteq Subreddits
    /\ DOMAIN subreddit_submissions \subseteq Subreddits
    /\ DOMAIN posted_at \subseteq Subreddits

(***************************************************************************)
(* base.py: the block-list.                                                *)
(***************************************************************************)
is_user_blocked_no_self(user_name) == user_name \in blocked_users

is_user_blocked(user_name) ==
    IF user_name = bot_name THEN TRUE
    ELSE user_name \in blocked_users

(***************************************************************************)
(* reply_bot.py, _RedditReplyBotMixin: the per-subreddit cooldown.         *)
(***************************************************************************)
can_post_in_subreddit_gt(subreddit) ==
    \/ subreddit \notin DOMAIN subreddit_timeouts
    \/ subreddit_timeouts[subreddit] > now

can_post_in_subreddit_le(subreddit) ==
    \/ subreddit \notin DOMAIN subreddit_timeouts
    \/ subreddit_timeouts[subreddit] <= now

can_post_in_subreddit(subreddit) ==
    \/ subreddit \notin DOMAIN subreddit_timeouts
    \/ subreddit_timeouts[subreddit] < now

did_post_in_subreddit_all(subreddit) ==
    [s \in DOMAIN subreddit_timeouts \cup Subreddits |->
        now + settings.subreddit_timeout]

did_post_in_subreddit(subreddit) ==
    DictSet(subreddit_timeouts, subreddit, now + settings.subreddit_timeout)

(***************************************************************************)
(* reply_bot.py, RedditCommentBot: the eligibility predicates.  c is the   *)
(* fullname of a thing.                                                    *)
(***************************************************************************)
comment_is_new_ge(c) ==
    things[c].created_utc + settings.comment_max_age >= now

comment_is_new(c) ==
    things[c].created_utc + settings.comment_max_age > now

comment_submission_cap_not_reached_le(c) ==
    DictGet(submissions_comment_counter, things[c].link_id, 0)
        <= settings.max_replies_per_post

comment_submission_cap_not_reached(c) ==
    DictGet(submissions_comment_counter, things[c].link_id, 0)
        < settings.max_replies_per_post

comment_author_blacklisted_no_deleted(c) ==
    is_user_blocked(things[c].author)

comment_author_blacklisted(c) ==
    IF things[c].author = NoAuthor THEN TRUE
    ELSE is_user_blocked(things[c].author)

comment_author_not_blacklisted(c) == ~comment_author_blacklisted(c)

(***************************************************************************)
(* comment_has_good_parents / _comment_has_good_parents: any() over the    *)
(* generator stops at the first true value, so the parent is fetched only  *)
(* when the three node checks pass and the walk goes on.  nf counts the    *)
(* get_info calls made so far in this poll cycle; the failAt-th of them    *)
(* raises (failAt = 0: none does).  Result: [good, nf, raised].            *)
(***************************************************************************)
Verdict(good, nf, raised) == [good |-> good, nf |-> nf, raised |-> raised]

RECURSIVE comment_has_good_parents_no_score(_, _, _, _)
comment_has_good_parents_no_score(c, depth, nf, failAt) ==
    IF comment_author_blacklisted(c) THEN Verdict(FALSE, nf, FALSE)
    ELSE IF things[c].score_hidden /\ ~settings.reply_if_score_hidden
         THEN Verdict(FALSE, nf, FALSE)
    ELSE IF things[c].is_root \/ depth > settings.score_check_depth
         THEN Verdict(TRUE, nf, FALSE)
    ELSE IF nf + 1 = failAt
         THEN Verdict(FALSE, nf + 1, TRUE)
    ELSE comment_has_good_parents_no_score(things[c].parent_id, depth + 1,
                                           nf + 1, failAt)

RECURSIVE comment_has_good_parents_no_depth(_, _, _, _)
comment_has_good_parents_no_depth(c, depth, nf, failAt) ==
    IF comment_author_blacklisted(c) THEN Verdict(FALSE, nf, FALSE)
    ELSE IF things[c].score_hidden /\ ~settings.reply_if_score_hidden
         THEN Verdict(FALSE, nf, FALSE)
    ELSE IF things[c].score < settings.min_comment_score
         THEN Verdict(FALSE, nf, FALSE)
    ELSE IF things[c].is_root
         THEN Verdict(TRUE, nf, FALSE)
    ELSE IF nf + 1 = failAt
         THEN Verdict(FALSE, nf + 1, TRUE)
    ELSE comment_has_good_parents_no_depth(things[c].parent_id, depth + 1,
                                           nf + 1, failAt)

RECURSIVE comment_has_good_parents_swallow(_, _, _, _)
comment_has_good_parents_swallow(c, depth, nf, failAt) ==
    IF comment_author_blacklisted(c) THEN Verdict(FALSE, nf, FALSE)
    ELSE IF things[c].score_hidden /\ ~settings.reply_if_score_hidden
         THEN Verdict(FALSE, nf, FALSE)
    ELSE IF things[c].score < settings.min_comment_score
         THEN Verdict(FALSE, nf, FALSE)
    ELSE IF things[c].is_root \/ depth > settings.score_check_depth
         THEN Verdict(TRUE, nf, FALSE)
    ELSE IF nf + 1 = failAt
         THEN Verdict(TRUE, nf + 1, FALSE)
    ELSE comment_has_good_parents_swallow(things[c].parent_id, depth + 1,
                                          nf + 1, failAt)

RECURSIVE comment_has_good_parents(_, _, _, _)
comment_has_good_parents(c, depth, nf, failAt) ==
    IF comment_author_blacklisted(c) THEN Verdict(FALSE, nf, FALSE)
    ELSE IF things[c].score_hidden /\ ~settings.reply_if_score_hidden
         THEN Verdict(FALSE, nf, FALSE)
    ELSE IF things[c].score < settings.min_comment_score
         THEN Verdict(FALSE, nf, FALSE)
    ELSE IF things[c].is_root \/ depth > settings.score_check_depth
         THEN Verdict(TRUE, nf, FALSE)
    ELSE IF nf + 1 = failAt                      \* _comment_parent raises
         THEN Verdict(FALSE, nf + 1, TRUE)
    ELSE comment_has_good_parents(things[c].parent_id, depth + 1, nf + 1, failAt)

(***************************************************************************)
(* bot_start / get_comment_checks: the ordered list of checks.             *)
(***************************************************************************)
get_comment_checks ==
    <<"comment_is_new", "comment_submission_cap_not_reached",
      "comment_author_not_blacklisted">>

comment_checks_parents_first ==
    IF settings.check_parent_comments
    THEN <<"comment_has_good_parents">> \o get_comment_checks
    ELSE get_comment_checks

comment_checks ==
    IF settings.check_parent_comments
    THEN Append(get_comment_checks, "comment_has_good_parents")
    ELSE get_comment_checks

call_check(check, c, nf, failAt) ==
    CASE check = "comment_is_new" -> Verdict(comment_is_new(c), nf, FALSE)
      [] check = "comment_submission_cap_not_reached" ->
            Verdict(comment_submission_cap_not_reached(c), nf, FALSE)
      [] check = "comment_author_not_blacklisted" ->
            Verdict(comment_author_not_blacklisted(c), nf, FALSE)
      [] check = "comment_has_good_parents" ->
            comment_has_good_parents(c, 0, nf, failAt)

(***************************************************************************)
(* is_valid_comment: all(check(comment) for check in self.comment_checks), *)
(* evaluated in order and stopping at the first check that fails or        *)
(* raises.  i is the index of the next check.                              *)
(***************************************************************************)
RECURSIVE all_checks(_, _, _, _)
all_checks(i, c, nf, failAt) ==
    IF i > Len(comment_checks) THEN Verdict(TRUE, nf, FALSE)
    ELSE LET r == call_check(comment_checks[i], c, nf, failAt)
         IN IF r.raised \/ ~r.good THEN r
            ELSE all_checks(i + 1, c, r.nf, failAt)

is_valid_comment_any(c, nf, failAt) ==
    Verdict(\E i \in 1..Len(comment_checks) :
                call_check(comment_checks[i], c, nf, 0).good,
            nf, FALSE)

is_valid_comment(c, nf, failAt) == all_checks(1, c, nf, failAt)

is_valid_submission(submission) == TRUE

(***************************************************************************)
(* The environment of one poll cycle.                                      *)
(*   batch   the fullnames the listing request returns, oldest first       *)
(*   res     what the pluggable reply action does on the item at each      *)
(*           position of the batch, should it be called: "replied" (a true *)
(*           value), "declined" (a false value) or "raised"                *)
(*   failAt  the failAt-th get_info call raises; 0: none does              *)
(***************************************************************************)
ReplyResults == {"replied", "declined", "raised"}

Fetchable_no_before(subreddit, before) ==
    {i \in Listing(subreddit) : things[i].created_utc <= now}

Fetchable(subreddit, before) ==
    {i \in Listing(subreddit) : i > before /\ things[i].created_utc <= now}

get_comments(subreddit, before) ==
    {SortedSeq(T) : T \in {U \in SUBSET Fetchable(subreddit, before) :
                              Cardinality(U) <= settings.fetch_limit}}

(***************************************************************************)
(* The reply action is called only on items that pass the checks, so what  *)
(* it would do on the other items is never read; nor is what it would do   *)
(* after it has raised.  Those positions are fixed to "declined" instead   *)
(* of being enumerated.                                                    *)
(***************************************************************************)
may_reply(c) ==
    IF bot_class = "RedditSubmissionBot" THEN is_valid_submission(c)
    ELSE is_valid_comment(c, 0, 0).good

ResultsFor(b) ==
    LET callable == {i \in 1..Len(b) : may_reply(b[i])}
    IN {r \in [1..Len(b) -> ReplyResults] :
          \A i \in 1..Len(b) :
              \/ r[i] = "declined"
              \/ i \in callable /\ \A j \in 1..(i - 1) : r[j] # "raised"}

Inputs(subreddit, before) ==
    UNION {[batch : {b}, res : ResultsFor(b),
            failAt : IF settings.check_parent_comments
                        /\ bot_class # "RedditSubmissionBot"
                     THEN 0..MaxFailAt ELSE {0}] :
           b \in get_comments(subreddit, before)}

reply_comment(i, inp) == inp.res[i]

(***************************************************************************)
(* _check_things, lines 57-60: remember the newest thing seen so far.      *)
(* st = [latest_created, latest_fullname, nf, attempts, replies].          *)
(***************************************************************************)
track_latest_ge(st, c) ==
    IF things[c].created_utc >= st.latest_created
    THEN [st EXCEPT !.latest_created = things[c].created_utc,
                    !.latest_fullname = c]
    ELSE st

track_latest(st, c) ==
    IF things[c].created_utc > st.latest_created
    THEN [st EXCEPT !.latest_created = things[c].created_utc,
                    !.latest_fullname = c]
    ELSE st

check_things_start_none(before) ==
    [latest_created |-> 0, latest_fullname |-> None, nf |-> 0,
     attempts |-> <<>>, replies |-> <<>>, store |-> FALSE, cursor |-> None]

check_things_start(before) ==
    [latest_created |-> 0, latest_fullname |-> before, nf |-> 0,
     attempts |-> <<>>, replies |-> <<>>, store |-> FALSE, cursor |-> None]

(***************************************************************************)
(* What one run of check_comments / check_submissions did:                 *)
(*   result    "returned" or "raised"                                      *)
(*   seen      how many items of the batch the loop body was entered for   *)
(*   attempts  the fullnames passed to the reply action, in order          *)
(*   replies   the fullnames the reply action succeeded on, in order       *)
(*   nf        the number of get_info calls                                *)
(*   store     whether the cursor entry of the subreddit was assigned      *)
(*   cursor    the value it holds at the end, if it was assigned           *)
(***************************************************************************)
Outcome(result, seen, st) ==
    [result |-> result, seen |-> seen, attempts |-> st.attempts,
     replies |-> st.replies, nf |-> st.nf, store |-> st.store,
     cursor |-> st.cursor]

attempted(st, thing) == [st EXCEPT !.attempts = Append(@, thing)]

store_cursor(st, fullname) == [st EXCEPT !.store = TRUE, !.cursor = fullname]

(***************************************************************************)
(* `if did_reply: ...; break`: the loop over the batch ends on a reply.    *)
(***************************************************************************)
breaks_never(did_reply) == FALSE

breaks(did_reply) == did_reply = "replied"

(***************************************************************************)
(* reply_bot.py, RedditCommentBot.check_comments over _check_things.  The  *)
(* generator updates latest_* before it yields the thing; its 'end' item   *)
(* is reached only when the loop did not break.  The checks read the       *)
(* counter as it was when the cycle began: the only statement that changes *)
(* it is followed by the break.                                            *)
(***************************************************************************)
RECURSIVE check_comments(_, _, _)
check_comments(i, st, inp) ==
    IF i > Len(inp.batch)
    THEN Outcome("returned", i - 1, store_cursor(st, st.latest_fullname))
    ELSE LET comment == inp.batch[i]
             v == is_valid_comment(comment, st.nf, inp.failAt)
             st1 == [track_latest(st, comment) EXCEPT !.nf = v.nf]
             st2 == attempted(st1, comment)
             st3 == store_cursor([st2 EXCEPT !.replies = Append(@, comment)],
                                 comment)
             did_reply == reply_comment(i, inp)
         IN IF v.raised THEN Outcome("raised", i, st1)
            ELSE IF ~v.good THEN check_comments(i + 1, st1, inp)
            ELSE IF did_reply = "raised" THEN Outcome("raised", i, st2)
            ELSE IF did_reply = "declined" THEN check_comments(i + 1, st2, inp)
            ELSE IF breaks(did_reply) THEN Outcome("returned", i, st3)
            ELSE check_comments(i + 1, st3, inp)

(***************************************************************************)
(* reply_bot.py, RedditSubmissionBot.check_submissions: the same loop with *)
(* is_valid_submission and no reply counter.                               *)
(***************************************************************************)
RECURSIVE check_submissions(_, _, _)
check_submissions(i, st, inp) ==
    IF i > Len(inp.batch)
    THEN Outcome("returned", i - 1, store_cursor(st, st.latest_fullname))
    ELSE LET submission == inp.batch[i]
             st1 == track_latest(st, submission)
             st2 == attempted(st1, submission)
             st3 == store_cursor([st2 EXCEPT !.replies = Append(@, submission)],
                                 submission)
             did_reply == reply_comment(i, inp)
         IN IF ~is_valid_submission(submission)
            THEN check_submissions(i + 1, st1, inp)
            ELSE IF did_reply = "raised" THEN Outcome("raised", i, st2)
            ELSE IF did_reply = "declined"
                 THEN check_submissions(i + 1, st2, inp)
            ELSE IF breaks(did_reply) THEN Outcome("returned", i, st3)
            ELSE check_submissions(i + 1, st3, inp)

(***************************************************************************)
(* __init__.py, RedditReplyBot.check_comments: the fetch loop is inlined   *)
(* and the cursor is assigned once, after the loop, to latest_fullname,    *)
(* whether the loop ended or broke on a reply.                             *)
(***************************************************************************)
RECURSIVE check_comments_init(_, _, _)
check_comments_init(i, st, inp) ==
    IF i > Len(inp.batch)
    THEN Outcome("returned", i - 1, store_cursor(st, st.latest_fullname))
    ELSE LET comment == inp.batch[i]
             v == is_valid_comment(comment, st.nf, inp.failAt)
             st1 == [track_latest(st, comment) EXCEPT !.nf = v.nf]
             st2 == attempted(st1, comment)
             st3 == [st2 EXCEPT !.replies = Append(@, comment)]
             did_reply == reply_comment(i, inp)
         IN IF v.raised THEN Outcome("raised", i, st1)
            ELSE IF ~v.good THEN check_comments_init(i + 1, st1, inp)
            ELSE IF did_reply = "raised" THEN Outcome("raised", i, st2)
            ELSE IF did_reply = "declined"
                 THEN check_comments_init(i + 1, st2, inp)
            ELSE IF breaks(did_reply)
                 THEN Outcome("returned", i,
                              store_cursor(st3, st3.latest_fullname))
            ELSE check_comments_init(i + 1, st3, inp)

(***************************************************************************)
(* The history variable: what the last operation was, its argument and,    *)
(* for a poll cycle, what it did.  before is the cursor the cycle started  *)
(* from.                                                                   *)
(***************************************************************************)
NoBatch == [batch |-> <<>>, res |-> <<>>, failAt |-> 0]

Record(op, subreddit, result, fetched, before, inp, out) ==
    [op |-> op, arg |-> subreddit, result |-> result,
     fetched |-> fetched, before |-> before, batch |-> inp.batch,
     seen |-> out.seen, attempts |-> out.attempts, replies |-> out.replies,
     nf |-> out.nf]

Other(op, subreddit, result) ==
    Record(op, subreddit, result, FALSE, None, NoBatch,
           Outcome(result, 0, check_things_start(None)))

(***************************************************************************)
(* The effect of the replies of a cycle on the counter: line 136, once per *)
(* reply.                                                                  *)
(***************************************************************************)
RECURSIVE count_replies_twice(_, _)
count_replies_twice(counter, replies) ==
    IF replies = <<>> THEN counter
    ELSE LET link == things[Head(replies)].link_id
         IN count_replies_twice(
                DictSet(counter, link, DictGet(counter, link, 0) + 2),
                Tail(replies))

RECURSIVE count_replies(_, _)
count_replies(counter, replies) ==
    IF replies = <<>> THEN counter
    ELSE LET link == things[Head(replies)].link_id
         IN count_replies(DictSet(counter, link, DictGet(counter, link, 0) + 1),
                          Tail(replies))

(***************************************************************************)
(* The history of the scheduler: its last step (op: "poll", "empty" for    *)
(* the for-else branch, "refresh"), the subreddit polled, how the step     *)
(* ended, the e.sleep_time of a RateLimitExceeded (else 0) and how long    *)
(* the scheduler slept in the step.                                        *)
(***************************************************************************)
Step(op, subreddit, result, sleep_time, slept) ==
    [op |-> op, arg |-> subreddit, result |-> result,
     sleep_time |-> sleep_time, slept |-> slept]

Init ==
    /\ bot_class \in BotClasses
    /\ settings \in Configurations(bot_class)
    /\ now = 1
    /\ friends \in SUBSET Users
    /\ blocked_users = friends
    /\ subreddit_timeouts = EmptyDict
    /\ subreddit_fullnames = EmptyDict
    /\ subreddit_submissions = EmptyDict
    /\ submissions_comment_counter = EmptyDict
    /\ posted_at = EmptyDict
    /\ last = Other("bot_start", "", "returned")
    /\ subscribed = <<"s1", "s2">>
    /\ subreddits = subscribed
    /\ pc = "bot_start"
    /\ idx = 0
    /\ exc = "none"
    /\ bot_errors = 0
    /\ bot_stops = 0
    /\ banned = {}
    /\ sched = Step("none", "", "returned", 0, 0)
    /\ last_mail_check = None
    /\ has_mail = FALSE
    /\ mail_result = "none"

(***************************************************************************)
(* Time passes.                                                            *)
(***************************************************************************)
Tick ==
    /\ now < MaxTime
    /\ now' = now + 1
    /\ last' = Other("tick", "", "returned")
    /\ UNCHANGED <<bot_class, settings, blocked_users, friends,
                   subreddit_timeouts, subreddit_fullnames,
                   subreddit_submissions, submissions_comment_counter,
                   posted_at, scheduler_vars>>

(***************************************************************************)
(* Control is back in the caller of loop(): the history of the cycle is    *)
(* dropped before the next operation starts.                               *)
(***************************************************************************)
Idle == last.op # "loop"

Return ==
    /\ ~Idle
    /\ last' = Other("return", "", "returned")
    /\ UNCHANGED <<bot_class, settings, now, blocked_users, friends,
                   subreddit_timeouts, subreddit_fullnames,
                   subreddit_submissions, submissions_comment_counter,
                   posted_at, scheduler_vars>>

(***************************************************************************)
(* reply_bot.py, RedditCommentBot.loop(subreddit).                         *)
(***************************************************************************)
loop_RedditCommentBot(subreddit) ==
    /\ bot_class = "RedditCommentBot"
    /\ Idle
    /\ UNCHANGED <<bot_class, settings, now, blocked_users, friends,
                   subreddit_submissions, scheduler_vars>>
    /\ IF ~can_post_in_subreddit(subreddit)
       THEN /\ last' = Other("loop", subreddit, "cooldown")
            /\ UNCHANGED <<subreddit_timeouts, subreddit_fullnames,
                           submissions_comment_counter, posted_at>>
       ELSE LET latest == DictGet(subreddit_fullnames, subreddit, None)
            IN \E inp \in Inputs(subreddit, latest) :
                 \E out \in {check_comments(1, check_things_start(latest), inp)} :
                    /\ submissions_comment_counter' =
                          count_replies(submissions_comment_counter, out.replies)
                    /\ subreddit_timeouts' =
                          IF out.replies # <<>>
                          THEN did_post_in_subreddit(subreddit)
                          ELSE subreddit_timeouts
                    /\ posted_at' =
                          IF out.replies # <<>>
                          THEN DictSet(posted_at, subreddit, now)
                          ELSE posted_at
                    /\ subreddit_fullnames' =
                          IF out.store
                          THEN DictSet(subreddit_fullnames, subreddit, out.cursor)
                          ELSE subreddit_fullnames
                    /\ last' = Record("loop", subreddit, out.result, TRUE,
                                      latest, inp, out)

(***************************************************************************)
(* reply_bot.py, RedditSubmissionBot.loop(subreddit).                      *)
(***************************************************************************)
loop_RedditSubmissionBot(subreddit) ==
    /\ bot_class = "RedditSubmissionBot"
    /\ Idle
    /\ UNCHANGED <<bot_class, settings, now, blocked_users, friends,
                   subreddit_fullnames, submissions_comment_counter,
                   scheduler_vars>>
    /\ IF ~can_post_in_subreddit(subreddit)
       THEN /\ last' = Other("loop", subreddit, "cooldown")
            /\ UNCHANGED <<subreddit_timeouts, subreddit_submissions,
                           posted_at>>
       ELSE LET latest == DictGet(subreddit_submissions, subreddit, None)
            IN \E inp \in Inputs(subreddit, latest) :
                 \E out \in {check_submissions(1, check_things_start(latest), inp)} :
                    /\ subreddit_timeouts' =
                          IF out.replies # <<>>
                          THEN did_post_in_subreddit(subreddit)
                          ELSE subreddit_timeouts
                    /\ posted_at' =
                          IF out.replies # <<>>
                          THEN DictSet(posted_at, subreddit, now)
                          ELSE posted_at
                    /\ subreddit_submissions' =
                          IF out.store
                          THEN DictSet(subreddit_submissions, subreddit, out.cursor)
                          ELSE subreddit_submissions
                    /\ last' = Record("loop", subreddit, out.result, TRUE,
                                      latest, inp, out)

(***************************************************************************)
(* __init__.py, RedditReplyBot.loop(subreddit).                            *)
(***************************************************************************)
loop_RedditReplyBot(subreddit) ==
    /\ bot_class = "RedditReplyBot"
    /\ Idle
    /\ UNCHANGED <<bot_class, settings, now, blocked_users, friends,
                   subreddit_submissions, scheduler_vars>>
    /\ IF ~can_post_in_subreddit(subreddit)
       THEN /\ last' = Other("loop", subreddit, "cooldown")
            /\ UNCHANGED <<subreddit_timeouts, subreddit_fullnames,
                           submissions_comment_counter, posted_at>>
       ELSE LET latest == DictGet(subreddit_fullnames, subreddit, None)
            IN \E inp \in Inputs(subreddit, latest) :
                 \E out \in {check_comments_init(1, check_things_start(latest), inp)} :
                    /\ submissions_comment_counter' =
                          count_replies(submissions_comment_counter, out.replies)
                    /\ subreddit_timeouts' =
                          IF out.replies # <<>>
                          THEN did_post_in_subreddit(subreddit)
                          ELSE subreddit_timeouts
                    /\ posted_at' =
                          IF out.replies # <<>>
                          THEN DictSet(posted_at, subreddit, now)
                          ELSE posted_at
                    /\ subreddit_fullnames' =
                          IF out.store
                          THEN DictSet(subreddit_fullnames, subreddit, out.cursor)
                          ELSE subreddit_fullnames
                    /\ last' = Record("loop", subreddit, out.result, TRUE,
                                      latest, inp, out)

(***************************************************************************)
(* The block-list operations.  In base.py self.blocked_users is the list   *)
(* built by _get_blocked_users from the friends of the account, and        *)
(* block_users calls .add on it, which a list does not have; in            *)
(* __init__.py it is the set read from the block-list file, and every      *)
(* operation writes the file back.                                         *)
(***************************************************************************)
from_init_py == bot_class = "RedditReplyBot"

block_users(user) ==
    /\ Idle
    /\ IF from_init_py
       THEN /\ blocked_users' = blocked_users \cup {user}
            /\ friends' = blocked_users'
            /\ last' = Other("block_users", user, "returned")
       ELSE /\ UNCHANGED <<blocked_users, friends>>
            /\ last' = Other("block_users", user,
                             IF user \notin blocked_users
                             THEN "raised" ELSE "returned")
    /\ UNCHANGED <<bot_class, settings, now, subreddit_timeouts,
                   subreddit_fullnames, subreddit_submissions,
                   submissions_comment_counter, posted_at, scheduler_vars>>

unblock_users(user) ==
    /\ Idle
    /\ blocked_users' = blocked_users \ {user}
    /\ friends' = IF from_init_py THEN blocked_users'
                  ELSE IF user \in blocked_users THEN friends \ {user}
                  ELSE friends
    /\ last' = Other("unblock_users", user, "returned")
    /\ UNCHANGED <<bot_class, settings, now, subreddit_timeouts,
                   subreddit_fullnames, subreddit_submissions,
                   submissions_comment_counter, posted_at, scheduler_vars>>

refresh_resets_cursors ==
    /\ Idle
    /\ subreddits' = subscribed
    /\ blocked_users' = friends
    /\ subreddit_fullnames' = EmptyDict
    /\ subreddit_submissions' = EmptyDict
    /\ last' = Other("refresh", "", "returned")
    /\ UNCHANGED <<bot_class, settings, now, friends, subreddit_timeouts,
                   submissions_comment_counter, posted_at, subscribed,
                   control>>

refresh ==
    /\ Idle
    /\ subreddits' = subscribed
    /\ blocked_users' = friends
    /\ last' = Other("refresh", "", "returned")
    /\ UNCHANGED <<bot_class, settings, now, friends, subreddit_timeouts,
                   subreddit_fullnames, subreddit_submissions,
                   submissions_comment_counter, posted_at, subscribed,
                   control>>

(***************************************************************************)
(* The stored block-list is changed from outside the bot.                  *)
(***************************************************************************)
external_block_list_change ==
    /\ Idle
    /\ \E stored \in SUBSET Users :
          /\ stored # friends
          /\ friends' = stored
    /\ last' = Other("external", "", "returned")
    /\ UNCHANGED <<bot_class, settings, now, blocked_users,
                   subreddit_timeouts, subreddit_fullnames,
                   subreddit_submissions, submissions_comment_counter,
                   posted_at, scheduler_vars>>

(***************************************************************************)
(* Spec: the polling engine, for the three bot classes.                    *)
(***************************************************************************)
Next ==
    \/ Tick
    \/ Return
    \/ \E subreddit \in Subreddits : loop_RedditCommentBot(subreddit)
    \/ \E subreddit \in Subreddits : loop_RedditSubmissionBot(subreddit)
    \/ \E subreddit \in Subreddits : loop_RedditReplyBot(subreddit)

Spec == Init /\ [][Next]_vars

(***************************************************************************)
(* SpecRefresh: the polling engine with refresh() called between polls.    *)
(***************************************************************************)
NextRefresh ==
    \/ Tick
    \/ Return
    \/ \E subreddit \in Subreddits : loop_RedditCommentBot(subreddit)
    \/ \E subreddit \in Subreddits : loop_RedditSubmissionBot(subreddit)
    \/ \E subreddit \in Subreddits : loop_RedditReplyBot(subreddit)
    \/ refresh

SpecRefresh == Init /\ [][NextRefresh]_vars

(***************************************************************************)
(* base.py, the scheduler: run_forever, do_loop and refresh.  The poll     *)
(* loop(subreddit) is seen from do_loop: it returns (None or               *)
(* BOT_SHOULD_REFRESH) or raises; praw's Forbidden is an HTTPException     *)
(* that the first except clause catches.  pc is the place run_forever is   *)
(* at: "bot_start", "do_loop" (about to enter do_loop), "poll" (inside the *)
(* for loop, about to take the next subreddit of the cycle), "refresh",    *)
(* "bot_stop" (the finally clause, an exception is propagating) and        *)
(* "exited".                                                               *)
(***************************************************************************)
LoopOutcomes ==
    {"returned", "BOT_SHOULD_REFRESH", "Forbidden", "RateLimitExceeded",
     "ConnectionError", "HTTPException", "Exception"}

SleepTimes == {1, 3}            \* e.sleep_time of RateLimitExceeded

\* the exceptions the (ConnectionError, HTTPException) clause of do_loop
\* names, and those a remote call outside a poll may raise
Transient == {"ConnectionError", "HTTPException"}

RemoteErrors == Transient \cup {"Exception"}

Whitelists ==
    {<<>>, <<"s1">>, <<"s2">>, <<"s1", "s2">>, <<"s2", "s1">>}

RECURSIVE Remove(_, _)
Remove(seq, x) ==
    IF seq = <<>> THEN <<>>
    ELSE IF Head(seq) = x THEN Tail(seq)
    ELSE <<Head(seq)>> \o Remove(Tail(seq), x)

BackoffFactor == 10             \* time.sleep(self.settings['loop_sleep'] * 10)

EmptySleep == 5                 \* time.sleep(5)

(***************************************************************************)
(* do_loop, lines 161-168: how long the scheduler sleeps after a poll.     *)
(***************************************************************************)
sleep_after_none(outcome, sleep_time) == 0

sleep_after(outcome, sleep_time) ==
    IF outcome = "RateLimitExceeded" THEN sleep_time
    ELSE IF outcome \in {"ConnectionError", "HTTPException"}
         THEN settings.loop_sleep * BackoffFactor
    ELSE IF outcome = "returned" THEN settings.loop_sleep
    ELSE 0

(***************************************************************************)
(* cycle(self.subreddits): the position that follows position i of n.      *)
(***************************************************************************)
cycle_next_same(i, n) == i

cycle_next(i, n) == (i % n) + 1

(***************************************************************************)
(* do_loop, lines 155-160: which outcomes of a poll leave the for loop.    *)
(***************************************************************************)
leaves_loop_never(outcome) == FALSE

leaves_loop(outcome) == outcome \in {"BOT_SHOULD_REFRESH", "Forbidden"}

(***************************************************************************)
(* `for ... in cycle(self.subreddits): ... else:` with an empty list: the  *)
(* else branch sleeps and do_loop returns.                                 *)
(***************************************************************************)
whitelist_is_empty_never(whitelist) == FALSE

whitelist_is_empty(whitelist) == whitelist = <<>>

(***************************************************************************)
(* run_forever, lines 141-143: `except Exception as e` catches what is an  *)
(* Exception; KeyboardInterrupt is a BaseException only.  The value is the *)
(* number of bot_error calls the propagating exception causes.             *)
(***************************************************************************)
except_Exception_none(e) == 0

except_Exception(e) == IF e = "KeyboardInterrupt" THEN 0 ELSE 1

InitScheduler ==
    /\ bot_class \in {"RedditCommentBot", "RedditReplyBot"}
    /\ settings \in {c \in Configurations(bot_class) :
                        /\ c.check_parent_comments
                        /\ c.max_replies_per_post = MaxReplies}
    /\ now = 1
    /\ friends = {}
    /\ blocked_users = friends
    /\ subreddit_timeouts = EmptyDict
    /\ subreddit_fullnames = EmptyDict
    /\ subreddit_submissions = EmptyDict
    /\ submissions_comment_counter = EmptyDict
    /\ posted_at = EmptyDict
    /\ last = Other("bot_start", "", "returned")
    /\ subscribed \in Whitelists
    /\ subreddits = subscribed
    /\ pc = "bot_start"
    /\ idx = 0
    /\ exc = "none"
    /\ bot_errors = 0
    /\ bot_stops = 0
    /\ banned = {}
    /\ sched = Step("none", "", "returned", 0, 0)
    /\ last_mail_check = None
    /\ has_mail = FALSE
    /\ mail_result = "none"

\* run_forever, line 136
run_forever_bot_start ==
    /\ pc = "bot_start"
    /\ pc' = "do_loop"
    /\ subreddit_timeouts' = EmptyDict
    /\ subreddit_fullnames' = EmptyDict
    /\ subreddit_submissions' = EmptyDict
    /\ submissions_comment_counter' = EmptyDict
    /\ UNCHANGED <<bot_class, settings, now, blocked_users, friends,
                   posted_at, last, subreddits, subscribed, idx, exc,
                   bot_errors, bot_stops, banned, sched, mail_vars>>

\* do_loop is entered: the for loop starts on cycle(self.subreddits)
do_loop ==
    /\ pc = "do_loop"
    /\ IF whitelist_is_empty(subreddits)
       THEN /\ pc' = "refresh"
            /\ idx' = 0
            /\ sched' = Step("empty", "", "returned", 0, EmptySleep)
       ELSE /\ pc' = "poll"
            /\ idx' = 1
            /\ sched' = Step("enter", "", "returned", 0, 0)
    /\ UNCHANGED <<bot_vars, subreddits, subscribed, exc, bot_errors,
                   bot_stops, banned, mail_vars>>

(***************************************************************************)
(* remove_subreddits(subreddit) in the Forbidden handler.  base.py removes *)
(* the name from the list and unsubscribes (a remote call: unsub is how it *)
(* ends, "returned" or the exception it raises); __init__.py removes it    *)
(* from the set and writes the set to the whitelist file.  The handler     *)
(* runs inside an except clause, so no other except clause of do_loop      *)
(* catches what it raises.                                                 *)
(***************************************************************************)
remove_subreddits_memory_only(stored, subreddit, unsub) == stored

remove_subreddits(stored, subreddit, unsub) ==
    IF from_init_py THEN Remove(subreddits, subreddit)
    ELSE IF unsub = "returned" THEN Remove(stored, subreddit)
    ELSE stored

\* one iteration of the for loop of do_loop: the poll and its handler
do_loop_poll ==
    /\ pc = "poll"
    /\ idx \in 1..Len(subreddits)
    /\ \E outcome \in LoopOutcomes, sleep_time \in SleepTimes,
          unsub \in {"returned"} \cup RemoteErrors :
          LET subreddit == subreddits[idx]
              fatal == \/ outcome = "Exception"
                       \/ /\ outcome = "Forbidden"
                          /\ unsub # "returned"
                          /\ ~from_init_py
              e == IF outcome = "Exception" THEN "Exception" ELSE unsub
          IN /\ outcome # "RateLimitExceeded" => sleep_time = 1
             /\ outcome # "Forbidden" => unsub = "returned"
             /\ from_init_py => unsub = "returned"
             /\ sched' = Step("poll", subreddit,
                              IF fatal THEN "Exception" ELSE outcome,
                              IF outcome = "RateLimitExceeded"
                              THEN sleep_time ELSE 0,
                              sleep_after(outcome, sleep_time))
             /\ subreddits' = IF outcome = "Forbidden"
                              THEN Remove(subreddits, subreddit)
                              ELSE subreddits
             /\ subscribed' = IF outcome = "Forbidden"
                              THEN remove_subreddits(subscribed, subreddit, unsub)
                              ELSE subscribed
             /\ banned' = IF outcome = "Forbidden" /\ ~fatal
                          THEN banned \cup {subreddit} ELSE banned
             /\ IF fatal
                THEN /\ pc' = "bot_stop"
                     /\ exc' = e
                     /\ bot_errors' = bot_errors + except_Exception(e)
                     /\ idx' = idx
                ELSE IF leaves_loop(outcome)
                THEN /\ pc' = "refresh"
                     /\ idx' = 0
                     /\ UNCHANGED <<exc, bot_errors>>
                ELSE /\ pc' = "poll"
                     /\ idx' = cycle_next(idx, Len(subreddits))
                     /\ UNCHANGED <<exc, bot_errors>>
    /\ UNCHANGED <<bot_vars, bot_stops, mail_vars>>

(***************************************************************************)
(* run_forever, line 140: refresh().  failAt = 1: _get_subreddits raises,  *)
(* failAt = 2: _get_blocked_users raises, 0: neither; e is the exception   *)
(* raised.  The call is outside do_loop, so only the except clause of      *)
(* run_forever sees it.                                                    *)
(***************************************************************************)
run_forever_refresh ==
    /\ pc = "refresh"
    /\ \E failAt \in 0..2, e \in RemoteErrors :
          /\ failAt = 0 => e = "Exception"
          /\ subreddits' = IF failAt = 1 THEN subreddits ELSE subscribed
          /\ blocked_users' = IF failAt = 0 THEN friends ELSE blocked_users
          /\ sched' = Step("refresh", "",
                           IF failAt = 0 THEN "returned" ELSE "Exception",
                           0, 0)
          /\ IF failAt = 0
             THEN /\ pc' = "do_loop"
                  /\ UNCHANGED <<exc, bot_errors>>
             ELSE /\ pc' = "bot_stop"
                  /\ exc' = e
                  /\ bot_errors' = bot_errors + except_Exception(e)
    /\ UNCHANGED <<bot_class, settings, now, friends, subreddit_timeouts,
                   subreddit_fullnames, subreddit_submissions,
                   submissions_comment_counter, posted_at, last, subscribed,
                   idx, bot_stops, banned, mail_vars>>

\* run_forever, lines 144-145: the finally clause; the exception goes on to
\* main, which catches KeyboardInterrupt only
run_forever_bot_stop ==
    /\ pc = "bot_stop"
    /\ pc' = "exited"
    /\ bot_stops' = bot_stops + 1
    /\ UNCHANGED <<bot_vars, subreddits, subscribed, idx, exc, bot_errors,
                   banned, sched, mail_vars>>

(***************************************************************************)
(* The process is interrupted.  KeyboardInterrupt is not an Exception: the *)
(* except clause of run_forever is skipped and the finally clause runs,    *)
(* provided the try statement had been entered.                            *)
(***************************************************************************)
KeyboardInterrupt ==
    /\ pc \in {"bot_start", "do_loop", "poll", "refresh"}
    /\ exc' = "KeyboardInterrupt"
    /\ pc' = IF pc = "bot_start" THEN "exited" ELSE "bot_stop"
    /\ bot_errors' = IF pc = "bot_start" THEN bot_errors
                     ELSE bot_errors + except_Exception("KeyboardInterrupt")
    /\ UNCHANGED <<bot_vars, subreddits, subscribed, idx, bot_stops, banned,
                   sched, mail_vars>>

\* the stored whitelist is changed from outside the bot
external_whitelist_change ==
    /\ pc # "exited"
    /\ \E stored \in Whitelists :
          /\ stored # subscribed
          /\ subscribed' = stored
          /\ banned' = banned \ {stored[i] : i \in 1..Len(stored)}
    /\ UNCHANGED <<bot_vars, subreddits, pc, idx, exc, bot_errors,
                   bot_stops, sched, mail_vars>>

\* the stored block-list is changed from outside the bot
external_friends_change ==
    /\ pc # "exited"
    /\ \E stored \in SUBSET Users :
          /\ stored # friends
          /\ friends' = stored
    /\ UNCHANGED <<bot_class, settings, now, blocked_users,
                   subreddit_timeouts, subreddit_fullnames,
                   subreddit_submissions, submissions_comment_counter,
                   posted_at, last, scheduler_vars>>

SchedulerStep ==
    \/ run_forever_bot_start
    \/ do_loop
    \/ do_loop_poll
    \/ run_forever_refresh
    \/ run_forever_bot_stop

NextScheduler ==
    \/ run_forever_bot_start
    \/ do_loop
    \/ do_loop_poll
    \/ run_forever_refresh
    \/ run_forever_bot_stop
    \/ KeyboardInterrupt
    \/ external_whitelist_change
    \/ external_friends_change

(***************************************************************************)
(* SpecScheduler: run_forever with its environment.  The scheduler is a    *)
(* sequential program whose sleeps and calls end: a step it can take is    *)
(* eventually taken.  The environment is under no obligation.              *)
(***************************************************************************)
SpecScheduler ==
    InitScheduler /\ [][NextScheduler]_vars /\ WF_vars(SchedulerStep)

(***************************************************************************)
(* The whitelist operations called on the bot.  In base.py self.subreddits *)
(* is the list built by _get_subreddits from the subscriptions of the      *)
(* account, and add_subreddits calls .add on it, which a list does not     *)
(* have: the call raises AttributeError before anything is changed.  In    *)
(* __init__.py it is the set read from the whitelist file, and every       *)
(* operation writes the file back.  Subscribable: the names the operations *)
(* are called with, one of them the name of a subreddit not subscribed to. *)
(***************************************************************************)
Subscribable == Subreddits \cup {"s3"}

is_subreddit_whitelisted(subreddit) ==
    \E i \in 1..Len(subreddits) : subreddits[i] = subreddit

add_subreddits(sub_name) ==
    /\ Idle
    /\ IF is_subreddit_whitelisted(sub_name)
       THEN /\ UNCHANGED subreddits
            /\ subscribed' = IF from_init_py THEN subreddits ELSE subscribed
            /\ last' = Other("add_subreddits", sub_name, "returned")
       ELSE IF from_init_py
       THEN /\ subreddits' = Append(subreddits, sub_name)
            /\ subscribed' = subreddits'
            /\ last' = Other("add_subreddits", sub_name, "returned")
       ELSE /\ UNCHANGED <<subreddits, subscribed>>
            /\ last' = Other("add_subreddits", sub_name, "raised")
    /\ UNCHANGED <<bot_class, settings, now, blocked_users, friends,
                   subreddit_timeouts, subreddit_fullnames,
                   subreddit_submissions, submissions_comment_counter,
                   posted_at, control>>

\* remove_subreddits called on the bot; unsub: what sub.unsubscribe() does
remove_subreddits_call(sub_name) ==
    /\ Idle
    /\ IF is_subreddit_whitelisted(sub_name)
       THEN \E unsub \in IF from_init_py THEN {"returned"}
                         ELSE {"returned"} \cup RemoteErrors :
               /\ subreddits' = Remove(subreddits, sub_name)
               /\ subscribed' = remove_subreddits(subscribed, sub_name, unsub)
               /\ last' = Other("remove_subreddits", sub_name,
                                IF unsub = "returned" THEN "returned"
                                ELSE "raised")
       ELSE /\ UNCHANGED subreddits
            /\ subscribed' = IF from_init_py THEN subreddits ELSE subscribed
            /\ last' = Other("remove_subreddits", sub_name, "returned")
    /\ UNCHANGED <<bot_class, settings, now, blocked_users, friends,
                   subreddit_timeouts, subreddit_fullnames,
                   subreddit_submissions, submissions_comment_counter,
                   posted_at, control>>

(***************************************************************************)
(* SpecBlockList: the block-list and whitelist operations, in any order.    *)
(***************************************************************************)
NextBlockList ==
    \/ \E user \in Users : block_users(user)
    \/ \E user \in Users : unblock_users(user)
    \/ \E sub_name \in Subscribable : add_subreddits(sub_name)
    \/ \E sub_name \in Subscribable : remove_subreddits_call(sub_name)
    \/ refresh
    \/ external_block_list_change

SpecBlockList == Init /\ [][NextBlockList]_vars

(***************************************************************************)
(* mail_bot.py, RedditMessageBot.  bot_start sets last_mail_check to None. *)
(* loop(subreddit) calls the loop of the base class, which does nothing,   *)
(* and then check_mail_if_necessary.  The clock is read twice, for the     *)
(* comparison and again inside check_mail for the assignment, and may have *)
(* moved in between (dt).  check_mail assigns last_mail_check before its   *)
(* first remote call; res is how the remote calls end: get_me raises, the  *)
(* account has no mail, get_unread or a handler raises, or every message   *)
(* is handled.  get_unread(unset_has_mail=True) clears the has_mail flag;  *)
(* when it raises the flag may or may not have been cleared.               *)
(***************************************************************************)
check_mail_due_le(t) ==
    \/ last_mail_check = None
    \/ last_mail_check + settings.check_mail <= t

check_mail_due(t) ==
    \/ last_mail_check = None
    \/ last_mail_check + settings.check_mail < t

CheckMailResults == {"get_me raised", "no mail", "get_unread raised", "handled"}

check_mail(subreddit) ==
    \E dt \in {0, 1}, res \in CheckMailResults, cleared \in BOOLEAN :
        /\ now + dt <= MaxTime
        /\ now' = now + dt
        /\ last_mail_check' = now'
        /\ res = "no mail" <=> ~has_mail
        /\ res # "get_unread raised" => cleared
        /\ has_mail' = IF res \in {"get_unread raised", "handled"} /\ cleared
                       THEN FALSE ELSE has_mail
        /\ mail_result' = res
        /\ last' = Other("check_mail_if_necessary", subreddit,
                         IF res \in {"get_me raised", "get_unread raised"}
                         THEN "raised" ELSE "returned")

check_mail_if_necessary(subreddit) ==
    IF check_mail_due(now)
    THEN check_mail(subreddit)
    ELSE /\ last' = Other("check_mail_if_necessary", subreddit, "skipped")
         /\ UNCHANGED <<now, mail_vars>>

loop_RedditMessageBot(subreddit) ==
    /\ bot_class = "RedditMessageBot"
    /\ check_mail_if_necessary(subreddit)
    /\ UNCHANGED <<bot_class, settings, blocked_users, friends,
                   subreddit_timeouts, subreddit_fullnames,
                   subreddit_submissions, submissions_comment_counter,
                   posted_at, subreddits, subscribed, pc, idx, exc,
                   bot_errors, bot_stops, banned, sched>>

\* a private message arrives
mail_arrives ==
    /\ bot_class = "RedditMessageBot"
    /\ ~has_mail
    /\ has_mail' = TRUE
    /\ last' = Other("external", "", "returned")
    /\ UNCHANGED <<bot_class, settings, now, blocked_users, friends,
                   subreddit_timeouts, subreddit_fullnames,
                   subreddit_submissions, submissions_comment_counter,
                   posted_at, subreddits, subscribed, pc, idx, exc,
                   bot_errors, bot_stops, banned, sched, last_mail_check,
                   mail_result>>

(***************************************************************************)
(* SpecMail: a RedditMessageBot after bot_start, its loop called at any    *)
(* time on any subreddit, the clock and the inbox.                         *)
(***************************************************************************)
InitMail ==
    /\ bot_class = "RedditMessageBot"
    /\ settings \in {c \in SettingsSpace :
                        /\ c.check_parent_comments
                        /\ c.max_replies_per_post = MaxReplies}
    /\ now = 1
    /\ friends = {}
    /\ blocked_users = friends
    /\ subreddit_timeouts = EmptyDict
    /\ subreddit_fullnames = EmptyDict
    /\ subreddit_submissions = EmptyDict
    /\ submissions_comment_counter = EmptyDict
    /\ posted_at = EmptyDict
    /\ last = Other("bot_start", "", "returned")
    /\ subscribed = <<"s1", "s2">>
    /\ subreddits = subscribed
    /\ pc = "bot_start"
    /\ idx = 0
    /\ exc = "none"
    /\ bot_errors = 0
    /\ bot_stops = 0
    /\ banned = {}
    /\ sched = Step("none", "", "returned", 0, 0)
    /\ last_mail_check = None
    /\ has_mail \in BOOLEAN
    /\ mail_result = "none"

NextMail ==
    \/ Tick
    \/ mail_arrives
    \/ \E subreddit \in Subreddits : loop_RedditMessageBot(subreddit)

SpecMail == InitMail /\ [][NextMail]_vars

(***************************************************************************)
(* PROPERTIES.  Their vocabulary is stated on the data of the model (the   *)
(* things, the settings, the variables), not through the operators that    *)
(* model the code.                                                         *)
(***************************************************************************)
Polled == last.op = "loop"

CommentBot == bot_class # "RedditSubmissionBot"

Cursor(subreddit) ==
    IF bot_class = "RedditSubmissionBot"
    THEN DictGet(subreddit_submissions, subreddit, None)
    ELSE DictGet(subreddit_fullnames, subreddit, None)

Elems(seq) == {seq[i] : i \in 1..Len(seq)}

Counter(link) == DictGet(submissions_comment_counter, link, 0)

Links == {things[i].link_id : i \in 1..Len(things)}

\* the replies of the last poll cycle that went to the thread
RepliesTo(link) ==
    Cardinality({i \in 1..Len(last.replies) :
                    things[last.replies[i]].link_id = link})

\* the counter of the thread when the last poll cycle began
CounterBefore(link) == Counter(link) - RepliesTo(link)

Fresh(c) == things[c].created_utc + settings.comment_max_age > now

Stale(c) == things[c].created_utc + settings.comment_max_age <= now

AuthorBlocked(c) ==
    \/ things[c].author = NoAuthor
    \/ things[c].author = bot_name
    \/ things[c].author \in blocked_users

\* the position of a thing in the batch of the last poll cycle (0: not there)
PositionOf(c) ==
    IF c \in Elems(last.batch)
    THEN CHOOSE i \in 1..Len(last.batch) : last.batch[i] = c
    ELSE 0

(***************************************************************************)
(* C1.  The reply counter of every thread is at most max_replies_per_post, *)
(* and every item a poll cycle passed to the reply action belonged to a    *)
(* thread whose counter was below max_replies_per_post when the cycle      *)
(* began (comment bots, default check list).                               *)
(***************************************************************************)
C1_ReplyCapRespected ==
    CommentBot =>
        /\ \A link \in Links : Counter(link) <= settings.max_replies_per_post
        /\ Polled =>
              \A c \in Elems(last.attempts) :
                  CounterBefore(things[c].link_id)
                      < settings.max_replies_per_post

\* a cycle saw a fresh item by an unblocked author in a thread that had
\* already received its max_replies_per_post >= 1 replies, and left it alone
C1_Witness ==
    /\ CommentBot
    /\ Polled
    /\ last.result = "returned"
    /\ settings.max_replies_per_post >= 1
    /\ \E c \in Elems(last.batch) :
          /\ CounterBefore(things[c].link_id) = settings.max_replies_per_post
          /\ Fresh(c)
          /\ ~AuthorBlocked(c)
          /\ PositionOf(c) <= last.seen
          /\ c \notin Elems(last.attempts)

(***************************************************************************)
(* C2.  A poll cycle on a subreddit whose cooldown timestamp is in the     *)
(* future returns at once: no listing fetch, no get_info call, no call of  *)
(* the reply action, and no cursor changes.                                *)
(***************************************************************************)
C2_CooldownSkipsPoll ==
    [][\A subreddit \in Subreddits :
          ( /\ Idle
            /\ last'.op = "loop"
            /\ last'.arg = subreddit
            /\ subreddit \in DOMAIN subreddit_timeouts
            /\ subreddit_timeouts[subreddit] > now )
          => /\ last'.result = "cooldown"
             /\ ~last'.fetched
             /\ last'.nf = 0
             /\ last'.attempts = <<>>
             /\ subreddit_fullnames' = subreddit_fullnames
             /\ subreddit_submissions' = subreddit_submissions]_vars

\* a cycle was skipped for a cooldown in the future although the listing
\* had items after the cursor
C2_Witness ==
    /\ Polled
    /\ last.result = "cooldown"
    /\ last.arg \in DOMAIN subreddit_timeouts
    /\ subreddit_timeouts[last.arg] > now
    /\ \E c \in Listing(last.arg) :
          c > Cursor(last.arg) /\ things[c].created_utc <= now

(***************************************************************************)
(* C3.  After did_post_in_subreddit(c) ran at time t, can_post_in_         *)
(* subreddit(c) is false at every time up to and including                 *)
(* t + subreddit_timeout and true at every later time; it is true for a    *)
(* subreddit with no cooldown entry.                                       *)
(***************************************************************************)
C3_CooldownWindow ==
    \A subreddit \in Subreddits :
        IF subreddit \in DOMAIN posted_at
        THEN can_post_in_subreddit(subreddit)
                <=> now > posted_at[subreddit] + settings.subreddit_timeout
        ELSE /\ subreddit \notin DOMAIN subreddit_timeouts
             /\ can_post_in_subreddit(subreddit)

\* the clock stands exactly at t + subreddit_timeout: still no posting
C3_Witness ==
    \E subreddit \in DOMAIN posted_at :
        /\ now = posted_at[subreddit] + settings.subreddit_timeout
        /\ ~can_post_in_subreddit(subreddit)

(***************************************************************************)
(* C4.  In one poll cycle at most one reply succeeds, and the item it      *)
(* succeeds on is the last item of the batch the cycle looks at and the    *)
(* last one passed to the reply action (all three bot classes).            *)
(***************************************************************************)
C4_OneReplyPerCycle ==
    Polled =>
        /\ Len(last.replies) <= 1
        /\ last.replies # <<>> =>
              /\ last.seen = PositionOf(last.replies[1])
              /\ last.attempts[Len(last.attempts)] = last.replies[1]

\* the reply succeeded on an item that was not the last of its batch
C4_Witness ==
    /\ Polled
    /\ Len(last.replies) = 1
    /\ last.seen < Len(last.batch)

(***************************************************************************)
(* C5.  An item with created_utc + comment_max_age <= now is not valid and *)
(* is never passed to the reply action (comment bots).                     *)
(***************************************************************************)
C5_StaleNeverEligible ==
    CommentBot =>
        /\ \A c \in Listed :
              Stale(c) => ~is_valid_comment(c, 0, 0).good
        /\ Polled => \A c \in Elems(last.attempts) : Fresh(c)

\* a completed cycle looked at an item exactly comment_max_age old, by an
\* unblocked author in a thread below its cap, and did not reply to it
C5_Witness ==
    /\ CommentBot
    /\ Polled
    /\ last.result = "returned"
    /\ \E c \in Elems(last.batch) :
          /\ things[c].created_utc + settings.comment_max_age = now
          /\ ~AuthorBlocked(c)
          /\ CounterBefore(things[c].link_id) < settings.max_replies_per_post
          /\ PositionOf(c) <= last.seen
          /\ c \notin Elems(last.attempts)

(***************************************************************************)
(* C6.  An item whose author is missing, is the bot itself or is on the    *)
(* block-list is not valid and is never passed to the reply action         *)
(* (comment bots).                                                         *)
(***************************************************************************)
C6_BlockedAuthorNeverEligible ==
    CommentBot =>
        /\ \A c \in Listed :
              AuthorBlocked(c) => ~is_valid_comment(c, 0, 0).good
        /\ Polled => \A c \in Elems(last.attempts) : ~AuthorBlocked(c)

\* a completed cycle looked at two fresh items in threads below their cap,
\* one by a user on the block-list and one by a deleted author, and passed
\* neither to the reply action
C6_Witness ==
    /\ CommentBot
    /\ Polled
    /\ last.result = "returned"
    /\ last.seen = Len(last.batch)
    /\ \E c, d \in Elems(last.batch) :
          /\ things[c].author \in blocked_users
          /\ things[d].author = NoAuthor
          /\ \A e \in {c, d} :
                /\ Fresh(e)
                /\ CounterBefore(things[e].link_id)
                      < settings.max_replies_per_post
                /\ e \notin Elems(last.attempts)

(***************************************************************************)
(* C7.  is_user_blocked(bot_name) is true in every state the block-list    *)
(* operations (block_users, unblock_users, refresh, changes of the stored  *)
(* list) can reach, whether or not the lists hold the bot's name.          *)
(***************************************************************************)
C7_BotAlwaysBlocked == is_user_blocked(bot_name)

\* the bot's own name was unblocked and is in neither list
C7_Witness ==
    /\ last.op = "unblock_users"
    /\ last.arg = bot_name
    /\ bot_name \notin blocked_users
    /\ bot_name \notin friends

(***************************************************************************)
(* C8.  In a poll cycle the reply action is called on exactly the items    *)
(* the cycle looked at that pass every enabled check (freshness, reply     *)
(* cap, author, and the ancestor check when enabled), in arrival order:    *)
(* no item that fails a check is attempted and no passing item is skipped. *)
(* The checks are taken in the state the cycle began in.                   *)
(***************************************************************************)
Passes(c) ==
    /\ Fresh(c)
    /\ Counter(things[c].link_id) < settings.max_replies_per_post
    /\ ~AuthorBlocked(c)
    /\ settings.check_parent_comments => comment_has_good_parents(c, 0, 0, 0).good

Ascending(seq) == \A i, j \in 1..Len(seq) : i < j => seq[i] < seq[j]

C8_OnlyEligibleAttempted ==
    [][( /\ CommentBot
         /\ Idle
         /\ last'.op = "loop"
         /\ last'.fetched )
       => /\ \A c \in Elems(last'.attempts) : Passes(c)
          /\ Ascending(last'.attempts)
          /\ \A i \in 1..Len(last'.batch) :
                ( /\ Passes(last'.batch[i])
                  /\ \/ i < last'.seen
                     \/ i = last'.seen /\ last'.result = "returned" )
                => last'.batch[i] \in Elems(last'.attempts)]_vars

\* the scenario: a batch of three, the first stale, the second by a blocked
\* author, the third replied to, and that was the only attempt
C8_Witness ==
    /\ CommentBot
    /\ Polled
    /\ Len(last.batch) = 3
    /\ Stale(last.batch[1])
    /\ Fresh(last.batch[2]) /\ things[last.batch[2]].author \in blocked_users
    /\ last.attempts = <<last.batch[3]>>
    /\ last.replies = <<last.batch[3]>>

(***************************************************************************)
(* C9.  After a poll cycle that returned normally, fetched a non-empty     *)
(* batch and made no successful reply, the stored cursor of the subreddit  *)
(* is the first item in arrival order among those of greatest created_utc  *)
(* in the batch.                                                           *)
(***************************************************************************)
IsFirstNewest(c, batch) ==
    \E i \in 1..Len(batch) :
        /\ batch[i] = c
        /\ \A j \in 1..Len(batch) :
              things[batch[j]].created_utc <= things[c].created_utc
        /\ \A j \in 1..(i - 1) :
              things[batch[j]].created_utc < things[c].created_utc

C9_CursorAdvancesWithoutReply ==
    ( /\ Polled
      /\ last.fetched
      /\ last.result = "returned"
      /\ last.batch # <<>>
      /\ last.replies = <<>> )
    => IsFirstNewest(Cursor(last.arg), last.batch)

\* no reply, and two items of the batch share the greatest created_utc: the
\* cursor moved to the earlier of the two
C9_Witness ==
    /\ Polled
    /\ last.fetched
    /\ last.result = "returned"
    /\ last.replies = <<>>
    /\ Cursor(last.arg) # last.before
    /\ \E i, j \in 1..Len(last.batch) :
          /\ i < j
          /\ last.batch[i] = Cursor(last.arg)
          /\ things[last.batch[j]].created_utc
                = things[last.batch[i]].created_utc

(***************************************************************************)
(* C10.  A poll cycle whose fetch returns an empty batch leaves the cursor *)
(* of the subreddit as the cycle found it and calls the reply action zero  *)
(* times.                                                                  *)
(***************************************************************************)
C10_EmptyPollKeepsCursor ==
    ( /\ Polled
      /\ last.fetched
      /\ last.result = "returned"
      /\ last.batch = <<>> )
    => /\ Cursor(last.arg) = last.before
       /\ last.attempts = <<>>
       /\ last.replies = <<>>

\* the second of two cycles: an earlier cycle had stored a cursor, and this
\* one fetched nothing
C10_Witness ==
    /\ Polled
    /\ last.fetched
    /\ last.result = "returned"
    /\ last.batch = <<>>
    /\ last.before # None
    /\ Cursor(last.arg) = last.before

(***************************************************************************)
(* C11.  From one step to the next, the created_utc of the item the stored *)
(* cursor of a subreddit names never decreases, and a stored cursor never  *)
(* goes back to None (None counts as created at time 0); all three bot     *)
(* classes, cycles with or without a reply or an exception.                *)
(***************************************************************************)
CreatedOf(fullname) ==
    IF fullname = None THEN 0 ELSE things[fullname].created_utc

C11_CursorMonotone ==
    [][\A subreddit \in Subreddits :
          CreatedOf(Cursor(subreddit)') >= CreatedOf(Cursor(subreddit))]_vars

\* a cycle that started from a stored cursor moved it to a strictly newer item
C11_Witness ==
    /\ Polled
    /\ last.fetched
    /\ last.before # None
    /\ Cursor(last.arg) # last.before
    /\ CreatedOf(Cursor(last.arg)) > CreatedOf(last.before)

(***************************************************************************)
(* C12.  After a poll cycle in which the reply action succeeded on item x  *)
(* of a subreddit, the stored cursor of the subreddit is x and its         *)
(* cooldown timestamp is now + subreddit_timeout (all three bot classes,   *)
(* batches with equal created_utc included).                               *)
(***************************************************************************)
C12_ReplySetsCursorAndCooldown ==
    ( /\ Polled
      /\ last.result = "returned"
      /\ last.replies # <<>> )
    => /\ Cursor(last.arg) = last.replies[1]
       /\ last.arg \in DOMAIN subreddit_timeouts
       /\ subreddit_timeouts[last.arg] = now + settings.subreddit_timeout

(***************************************************************************)
(* Vocabulary of the scheduler properties.  A poll step is a step of the   *)
(* scheduler in which loop(subreddit) was called: sched' describes it.     *)
(***************************************************************************)
PollStep ==
    /\ pc = "poll"
    /\ sched'.op = "poll"
    /\ (sched' # sched \/ idx' # idx)

Whitelisted(subreddit) == subreddit \in Elems(subreddits)

Stored(subreddit) == subreddit \in Elems(subscribed)

PositionIn(whitelist, subreddit) ==
    IF subreddit \in Elems(whitelist)
    THEN CHOOSE i \in 1..Len(whitelist) : whitelist[i] = subreddit
    ELSE 0

JustPolled(subreddit) == sched.op = "poll" /\ sched.arg = subreddit

(***************************************************************************)
(* C13.  Inside do_loop the polls go through the whitelist in its order,   *)
(* starting at its first subreddit and wrapping around after the last; a   *)
(* poll that returns normally is followed by a sleep of loop_sleep; and    *)
(* as long as the for loop is not left (no Forbidden, no refresh signal,   *)
(* no fatal exception, no interrupt) every whitelisted subreddit is polled *)
(* again and again.                                                        *)
(***************************************************************************)
C13_RoundRobin ==
    /\ [][PollStep =>
            /\ Whitelisted(sched'.arg)
            /\ PositionIn(subreddits, sched'.arg) =
                  IF sched.op = "poll"
                  THEN (PositionIn(subreddits, sched.arg) % Len(subreddits)) + 1
                  ELSE 1
            /\ sched'.result = "returned" =>
                  sched'.slept = settings.loop_sleep]_vars
    /\ \A subreddit \in Subreddits :
          (pc = "poll" /\ Whitelisted(subreddit))
             ~> (JustPolled(subreddit) \/ pc # "poll")

\* the last subreddit of a whitelist of two was polled and the cycle is back
\* at the first
C13_Witness ==
    /\ pc = "poll"
    /\ Len(subreddits) = 2
    /\ JustPolled(subreddits[2])
    /\ sched.result = "returned"
    /\ idx = 1

(***************************************************************************)
(* C14.  A poll of subreddit c that raises Forbidden, with the handler     *)
(* running to its end: c is out of the whitelist in memory and out of the  *)
(* stored whitelist, the for loop is left without a sleep and run_forever  *)
(* goes to refresh, which reloads the whitelist before do_loop starts      *)
(* over; no later poll is on a subreddit removed this way and not re-added *)
(* to the store from outside; and the scheduler goes on to poll another    *)
(* subreddit (or to the empty-whitelist sleep) unless c is re-added, the   *)
(* process is interrupted or the reload itself raises.                     *)
(***************************************************************************)
ForbiddenHandled(subreddit) ==
    /\ pc = "refresh"
    /\ JustPolled(subreddit)
    /\ sched.result = "Forbidden"

C14_ForbiddenRemovesSubreddit ==
    /\ [][/\ (PollStep /\ sched'.result = "Forbidden") =>
                /\ sched'.arg \notin Elems(subreddits')
                /\ sched'.arg \notin Elems(subscribed')
                /\ sched'.slept = 0
                /\ pc' = "refresh"
                /\ exc' = "none"
          /\ (pc = "refresh" /\ pc' = "do_loop") => subreddits' = subscribed
          /\ PollStep => sched'.arg \notin banned]_vars
    /\ \A subreddit \in Subreddits :
          ForbiddenHandled(subreddit)
             ~> \/ sched.op = "empty"
                \/ sched.op = "poll" /\ sched.arg # subreddit
                \/ subreddit \notin banned
                \/ exc = "KeyboardInterrupt"
                \/ sched.op = "refresh" /\ sched.result = "Exception"

\* one subreddit was removed for Forbidden and the other one has been polled
\* since
C14_Witness ==
    /\ pc = "poll"
    /\ banned # {}
    /\ sched.op = "poll"
    /\ sched.result = "returned"
    /\ sched.arg \notin banned
    /\ \A subreddit \in banned : ~Whitelisted(subreddit) /\ ~Stored(subreddit)

(***************************************************************************)
(* C15.  As claimed: the poll that follows a poll of subreddit c that      *)
(* raised RateLimitExceeded, ConnectionError or HTTPException is a poll of *)
(* c again.                                                                *)
(***************************************************************************)
Recoverable == {"RateLimitExceeded", "ConnectionError", "HTTPException"}

C17_EmptyWhitelistWaits ==
    /\ [][/\ (pc = "do_loop" /\ subreddits = <<>> /\ pc' # pc
                 /\ exc' = "none") =>
                /\ sched'.op = "empty"
                /\ sched'.slept = 5
                /\ pc' = "refresh"
                /\ subreddits' = subreddits
          /\ (pc = "refresh" /\ pc' = "do_loop") => subreddits' = subscribed
          /\ PollStep => subreddits # <<>>
          /\ (PollStep /\ sched.op \notin {"poll"}) =>
                sched'.arg = subreddits[1]]_vars
    /\ (sched.op = "empty" /\ pc = "refresh")
          ~> (pc = "do_loop" \/ exc # "none")
    /\ (pc = "do_loop" /\ subreddits # <<>>)
          ~> (sched.op = "poll" \/ exc # "none")

\* the scheduler has slept on an empty whitelist while the store has been
\* given a subreddit: the reload that comes next ends the wait
C17_Witness ==
    /\ pc = "refresh"
    /\ sched.op = "empty"
    /\ sched.slept = 5
    /\ subreddits = <<>>
    /\ subscribed # <<>>
    /\ exc = "none"

(***************************************************************************)
(* C18.  As claimed: once every whitelisted subreddit has been polled, the *)
(* whitelist and the block-list are reloaded before the next poll, that    *)
(* is, a poll of the last subreddit of the whitelist that returned is      *)
(* never directly followed by another poll; and a poll that returns        *)
(* BOT_SHOULD_REFRESH leads to the reload.                                 *)
(***************************************************************************)
SweepDone ==
    /\ sched.op = "poll"
    /\ sched.result = "returned"
    /\ PositionIn(subreddits, sched.arg) = Len(subreddits)

C19_RefreshResetsCursors ==
    [][(last.op = "refresh" /\ last'.op = "loop" /\ last'.fetched)
          => last'.before = None]_vars

(***************************************************************************)
(* C19, amended.  refresh leaves the cursors of all subreddits, the        *)
(* cooldowns and the reply counters as they are, and a poll that comes     *)
(* right after a refresh fetches with the cursor that was stored for its   *)
(* subreddit before the refresh.                                           *)
(***************************************************************************)
C19_RefreshKeepsCursors ==
    [][/\ last'.op = "refresh" =>
             /\ subreddit_fullnames' = subreddit_fullnames
             /\ subreddit_submissions' = subreddit_submissions
             /\ subreddit_timeouts' = subreddit_timeouts
             /\ submissions_comment_counter' = submissions_comment_counter
       /\ (last.op = "refresh" /\ last'.op = "loop" /\ last'.fetched)
             => last'.before = Cursor(last'.arg)]_vars

\* refresh has just run while a cursor was stored for some subreddit
C19_Witness ==
    /\ last.op = "refresh"
    /\ \E subreddit \in Subreddits : Cursor(subreddit) # None

(***************************************************************************)
(* C20.  With check_parent_comments on (comment bots): when the item or    *)
(* one of its ancestors at depth d <= score_check_depth (depth 0: the item *)
(* itself; the chain ends at a root comment) has a blocked, own or missing *)
(* author, a hidden score while reply_if_score_hidden is off, or a score   *)
(* below min_comment_score, comment_has_good_parents is false for the item *)
(* and no poll cycle passes the item to the reply action.                  *)
(***************************************************************************)
RECURSIVE Ancestor(_, _)
Ancestor(c, d) ==
    IF d = 0 THEN c
    ELSE IF things[c].is_root THEN None
    ELSE Ancestor(things[c].parent_id, d - 1)

NodeBad(n) ==
    \/ AuthorBlocked(n)
    \/ things[n].score_hidden /\ ~settings.reply_if_score_hidden
    \/ things[n].score < settings.min_comment_score

BadWithin(c, depth) ==
    \E d \in 0..depth : Ancestor(c, d) # None /\ NodeBad(Ancestor(c, d))

OnlyBadBeyond(c, depth) ==
    /\ ~BadWithin(c, depth)
    /\ \E d \in (depth + 1)..Len(things) :
          Ancestor(c, d) # None /\ NodeBad(Ancestor(c, d))

C21_DeeperBadNodeIgnored ==
    (CommentBot /\ settings.check_parent_comments /\ Polled) =>
        \A c \in Elems(last.batch) :
            OnlyBadBeyond(c, settings.score_check_depth) =>
                /\ comment_has_good_parents(c, 0, 0, 0).good
                /\ ( /\ last.result = "returned"
                     /\ PositionOf(c) <= last.seen
                     /\ Fresh(c)
                     /\ ~AuthorBlocked(c)
                     /\ CounterBefore(things[c].link_id)
                           < settings.max_replies_per_post )
                   => c \in Elems(last.attempts)

(***************************************************************************)
(* C22.  One run of comment_has_good_parents on one item ends after at     *)
(* most score_check_depth + 1 get_info calls, whatever the chain above the *)
(* item (longer than the bound, or never reaching a root) and whether or   *)
(* not a call raises; a poll cycle makes at most that many calls for each  *)
(* item it looks at.                                                       *)
(***************************************************************************)
C22_ParentFetchesBounded ==
    (CommentBot /\ settings.check_parent_comments) =>
        /\ \A c \in 1..Len(things) : \A failAt \in 0..MaxFailAt :
              comment_has_good_parents(c, 0, 0, failAt).nf
                  <= settings.score_check_depth + 1
        /\ Polled => last.nf <= (settings.score_check_depth + 1) * last.seen

\* a cycle passed to the reply action an item whose chain goes on above the
\* depth bound, after score_check_depth + 1 get_info calls
C22_Witness ==
    /\ CommentBot
    /\ settings.check_parent_comments
    /\ Polled
    /\ \E c \in Elems(last.attempts) :
          /\ Ancestor(c, settings.score_check_depth + 2) # None
          /\ comment_has_good_parents(c, 0, 0, 0).nf
                = settings.score_check_depth + 1
          /\ last.nf >= settings.score_check_depth + 1

(***************************************************************************)
(* C23.  A get_info call that raises during the ancestor check of item x   *)
(* ends the poll cycle with the exception: x is not passed to the reply    *)
(* action, nothing is replied to, and the cursor of the subreddit stays    *)
(* where the cycle found it, which is before x.  The failure is never read *)
(* as a verdict: every item passed to the reply action has good parents,   *)
(* and every item a cycle looked at and left alone fails a check.          *)
(***************************************************************************)
FetchRaised ==
    /\ Polled
    /\ last.result = "raised"
    /\ last.seen >= 1
    /\ last.batch[last.seen] \notin Elems(last.attempts)

C23_FetchFailurePropagates ==
    (CommentBot /\ settings.check_parent_comments /\ Polled) =>
        /\ FetchRaised =>
              /\ last.nf >= 1
              /\ last.replies = <<>>
              /\ Cursor(last.arg) = last.before
              /\ Cursor(last.arg) < last.batch[last.seen]
        /\ \A c \in Elems(last.attempts) :
              comment_has_good_parents(c, 0, 0, 0).good
        /\ \A i \in 1..last.seen :
              ( /\ last.batch[i] \notin Elems(last.attempts)
                /\ ~(FetchRaised /\ i = last.seen) )
              => \/ Stale(last.batch[i])
                 \/ AuthorBlocked(last.batch[i])
                 \/ CounterBefore(things[last.batch[i]].link_id)
                       >= settings.max_replies_per_post
                 \/ ~comment_has_good_parents(last.batch[i], 0, 0, 0).good

\* the get_info call for the parent of an item that passes every check
\* raised, in a cycle that started from a stored cursor
C23_Witness ==
    /\ CommentBot
    /\ settings.check_parent_comments
    /\ FetchRaised
    /\ last.before # None
    /\ Passes(last.batch[last.seen])

(***************************************************************************)
(* C25.  The checks run in the order comment_is_new,                       *)
(* comment_submission_cap_not_reached, comment_author_not_blacklisted,     *)
(* comment_has_good_parents and stop at the first that fails: the get_info *)
(* calls of a poll cycle are those of the items that are fresh, below the  *)
(* cap and by an unblocked author, so a cycle that saw only other items    *)
(* made none.                                                              *)
(***************************************************************************)
PassesFirstThree(c) ==
    /\ Fresh(c)
    /\ ~AuthorBlocked(c)
    /\ CounterBefore(things[c].link_id) < settings.max_replies_per_post

RECURSIVE FetchesDue(_)
FetchesDue(i) ==
    IF i = 0 THEN 0
    ELSE FetchesDue(i - 1)
           + IF PassesFirstThree(last.batch[i])
             THEN comment_has_good_parents(last.batch[i], 0, 0, 0).nf
             ELSE 0

C25_ChecksShortCircuitInOrder ==
    (CommentBot /\ settings.check_parent_comments /\ Polled) =>
        /\ last.nf <= FetchesDue(last.seen)
        /\ last.result = "returned" => last.nf = FetchesDue(last.seen)
        /\ (\A i \in 1..last.seen : ~PassesFirstThree(last.batch[i]))
              => last.nf = 0

\* a cycle looked at a stale item whose own score and author are fine and
\* which has a parent, and made no get_info call
C25_Witness ==
    /\ CommentBot
    /\ settings.check_parent_comments
    /\ Polled
    /\ last.result = "returned"
    /\ last.nf = 0
    /\ \E i \in 1..last.seen :
          /\ Stale(last.batch[i])
          /\ ~NodeBad(last.batch[i])
          /\ ~things[last.batch[i]].is_root

(***************************************************************************)
(* C26.  Counters and cooldowns change only on a successful reply.  A poll *)
(* cycle in which the reply action succeeded on an item adds exactly 1 to  *)
(* the counter of the item's thread and sets the cooldown of the polled    *)
(* subreddit to now + subreddit_timeout; every other step (a cycle whose   *)
(* reply action returned false or was never called, a cycle that raised, a *)
(* refresh, the clock) leaves every counter and every cooldown entry as it *)
(* was.  No counter ever decreases.  A cycle that returns without a reply  *)
(* has looked at every item of its batch.                                  *)
(***************************************************************************)
LoopStep == Idle /\ last'.op = "loop"

C26_OnlyRepliesCount ==
    [][ /\ \A link \in Links : Counter(link)' >= Counter(link)
        /\ IF LoopStep /\ last'.replies # <<>>
           THEN /\ Len(last'.replies) = 1
                /\ last'.result = "returned"
                /\ CommentBot =>
                      \A link \in Links :
                         Counter(link)' =
                            IF link = things[last'.replies[1]].link_id
                            THEN Counter(link) + 1
                            ELSE Counter(link)
                /\ subreddit_timeouts' =
                      DictSet(subreddit_timeouts, last'.arg,
                              now + settings.subreddit_timeout)
           ELSE /\ submissions_comment_counter' = submissions_comment_counter
                /\ subreddit_timeouts' = subreddit_timeouts
        /\ ( /\ LoopStep
             /\ last'.fetched
             /\ last'.result = "returned"
             /\ last'.replies = <<>> )
           => last'.seen = Len(last'.batch) ]_vars

\* the reply action returned false on an item that was not the last of the
\* batch; the cycle went on to the end of the batch and no counter and no
\* cooldown entry was touched
C26_Witness ==
    /\ CommentBot
    /\ Polled
    /\ last.result = "returned"
    /\ last.replies = <<>>
    /\ last.seen = Len(last.batch)
    /\ \E i \in 1..(last.seen - 1) : last.batch[i] \in Elems(last.attempts)
    /\ last.arg \notin DOMAIN subreddit_timeouts
    /\ \A link \in Links : Counter(link) = 0

(***************************************************************************)
(* C28.  A poll cycle on a subreddit leaves the cursor and the cooldown of *)
(* every other subreddit, the whitelist and the block-list as they were,   *)
(* and changes no counter but that of the thread it replied to: whether    *)
(* another subreddit may be polled is the same before and after.           *)
(***************************************************************************)
C28_PollTouchesOwnChannelOnly ==
    [][ LoopStep =>
          /\ \A d \in Subreddits \ {last'.arg} :
                /\ Cursor(d)' = Cursor(d)
                /\ DictGet(subreddit_fullnames, d, None)'
                      = DictGet(subreddit_fullnames, d, None)
                /\ DictGet(subreddit_submissions, d, None)'
                      = DictGet(subreddit_submissions, d, None)
                /\ DictGet(subreddit_timeouts, d, None)'
                      = DictGet(subreddit_timeouts, d, None)
                /\ can_post_in_subreddit(d)' = can_post_in_subreddit(d)
          /\ subreddits' = subreddits
          /\ subscribed' = subscribed
          /\ blocked_users' = blocked_users
          /\ friends' = friends
          /\ \A link \in Links :
                Counter(link)' # Counter(link) =>
                   /\ last'.replies # <<>>
                   /\ link = things[last'.replies[1]].link_id ]_vars

\* a cycle replied in one subreddit while the other had a cursor of its own
\* and no cooldown
C28_Witness ==
    /\ Polled
    /\ last.replies # <<>>
    /\ \E d \in Subreddits \ {last.arg} :
          /\ Cursor(d) # None
          /\ d \notin DOMAIN subreddit_timeouts

(***************************************************************************)
(* C27.  No item is replied to twice.  The item a poll cycle of a comment  *)
(* bot replied to lies after the cursor the cycle started from (the fetch  *)
(* returns only such items), and the cursor stored by the cycle is not     *)
(* before the replied item, so no later fetch returns the item again.      *)
(* Stated for RedditCommentBot (reply_bot.py) and RedditReplyBot           *)
(* (__init__.py).                                                          *)
(***************************************************************************)
C27_NoSecondReply ==
    (CommentBot /\ Polled /\ last.replies # <<>>) =>
        \A i \in 1..Len(last.replies) :
            /\ last.replies[i] > last.before
            /\ Cursor(last.arg) >= last.replies[i]
            /\ last.replies[i] \notin Fetchable(last.arg, Cursor(last.arg))

(***************************************************************************)
(* C29.  For the base.py classes: add_subreddits(s) on a subreddit that is *)
(* not whitelisted returns and leaves is_subreddit_whitelisted(s) true;    *)
(* block_users(u) on a user who is not blocked returns and leaves          *)
(* is_user_blocked(u) true; remove_subreddits(s) right after               *)
(* add_subreddits(s), and unblock_users(u) right after block_users(u),     *)
(* return and take exactly that name out again.                            *)
(***************************************************************************)
C29_AddAndBlockRoundTrip ==
    [][ ~from_init_py =>
          /\ \A s \in Subscribable :
                /\ ( /\ last'.op = "add_subreddits"
                     /\ last'.arg = s
                     /\ ~is_subreddit_whitelisted(s) )
                   => /\ last'.result = "returned"
                      /\ is_subreddit_whitelisted(s)'
                /\ ( /\ last.op = "add_subreddits"
                     /\ last.arg = s
                     /\ last'.op = "remove_subreddits"
                     /\ last'.arg = s )
                   => /\ last'.result = "returned"
                      /\ ~is_subreddit_whitelisted(s)'
          /\ \A u \in Users :
                /\ ( /\ last'.op = "block_users"
                     /\ last'.arg = u
                     /\ ~is_user_blocked(u) )
                   => /\ last'.result = "returned"
                      /\ is_user_blocked(u)'
                /\ ( /\ last.op = "block_users"
                     /\ last.arg = u
                     /\ last'.op = "unblock_users"
                     /\ last'.arg = u
                     /\ u # bot_name )
                   => /\ last'.result = "returned"
                      /\ ~is_user_blocked(u)' ]_vars

(***************************************************************************)
(* C24.  A ConnectionError or HTTPException raised by a remote call made   *)
(* during run_forever never ends the scheduler.  Raised by a poll, it is   *)
(* followed by the backoff sleep of loop_sleep * 10 and the scheduler goes *)
(* on; and none ever reaches the except clause of run_forever, whether it  *)
(* comes from a poll, from the reload of the whitelist and the block-list  *)
(* in refresh, or from the unsubscribe call of the Forbidden handler.      *)
(***************************************************************************)
C24_TransientFailuresRecovered ==
    [][ /\ (PollStep /\ sched'.result \in Transient) =>
              /\ sched'.slept = settings.loop_sleep * BackoffFactor
              /\ pc' = "poll"
        /\ exc' \notin Transient ]_vars

(***************************************************************************)
(* C30.  RedditMessageBot checks its mail in the first loop call after     *)
(* bot_start.  After that a loop call checks the mail only when more than  *)
(* check_mail seconds have passed since last_mail_check, the time the      *)
(* previous check began, so two consecutive checks begin more than         *)
(* check_mail seconds apart.  last_mail_check is set by every check,       *)
(* whether its remote calls return or raise: a check that raised is not    *)
(* repeated before the interval is over.  Nothing else changes             *)
(* last_mail_check.                                                        *)
(***************************************************************************)
MailLoopStep == last'.op = "check_mail_if_necessary"

MailChecked == MailLoopStep /\ last'.result # "skipped"

C30_MailCheckInterval ==
    [][ /\ (MailLoopStep /\ last_mail_check = None) => MailChecked
        /\ (MailChecked /\ last_mail_check # None) =>
              /\ now > last_mail_check + settings.check_mail
              /\ last_mail_check' > last_mail_check + settings.check_mail
        /\ MailChecked =>
              /\ last_mail_check' = now'
              /\ last_mail_check' >= now
        /\ ( /\ MailLoopStep
             /\ last_mail_check # None
             /\ now <= last_mail_check + settings.check_mail )
           => /\ ~MailChecked
              /\ UNCHANGED mail_vars
        /\ ~MailChecked => last_mail_check' = last_mail_check ]_vars

\* the latest mail check raised, time has passed since it began, and a loop
\* call within the interval has just left the mail alone
C30_Witness ==
    /\ bot_class = "RedditMessageBot"
    /\ last.op = "check_mail_if_necessary"
    /\ last.result = "skipped"
    /\ mail_result \in {"get_me raised", "get_unread raised"}
    /\ now > last_mail_check
    /\ has_mail

====
